---- MODULE Spec2Model ----
(***************************************************************************)
(* A model of narrative_viz.py: the linear script that loads the two       *)
(* World Happiness tables, normalizes them into df_2024 and df_years,      *)
(* derives the contribution ratios, the tertile categories and the         *)
(* relative happiness, and declares the charts.                            *)
(*                                                                         *)
(* A cell of a table is a tuple: <<>> is a missing value (NaN), <<s>> is   *)
(* the string s, and <<n, d>> is the number n/d in lowest terms with       *)
(* d >= 0; <<1, 0>> and <<-1, 0>> are +inf and -inf.  Floating point       *)
(* rounding is not modelled: numbers are exact rationals.                  *)
(* A table is [cols |-> the set of its column names, rows |-> the sequence *)
(* of its rows], a row being a function from cols to cells.                *)
(***************************************************************************)
EXTENDS Integers, Sequences, FiniteSets, TLC

VARIABLES pc, raw_2024, raw_years, df_2024, df_2024_years, df_years,
          df_top10, df_2024_top10, df_2024_factors, charts, error,
          spearman_cormatrix, heatmap_df, df_contribution, world_years,
          select_year_chart, selections, world_factors, country_dropdown,
          selection_country, select_year_map2

(* the tables of the later sections of the script *)
reshaped == <<spearman_cormatrix, heatmap_df, df_contribution, world_years>>

(* the interactive parameters of the charts, and world_factors, the set of *)
(* shapes the dashboard map draws under the current parameters             *)
controls == <<select_year_chart, selections, world_factors, country_dropdown,
              selection_country, select_year_map2>>

vars == <<pc, raw_2024, raw_years, df_2024, df_2024_years, df_years,
          df_top10, df_2024_top10, df_2024_factors, charts, error,
          reshaped, controls>>

-----------------------------------------------------------------------------
(* Cells *)

NaN == <<>>

Num(n) == <<n, 1>>

Str(s) == <<s>>

isna(x) == Len(x) = 0

IsFinite(x) == Len(x) = 2 /\ x[2] > 0

Abs(n) == IF n < 0 THEN -n ELSE n

Sign(n) == IF n < 0 THEN -1 ELSE IF n > 0 THEN 1 ELSE 0

RECURSIVE GCD(_, _)
GCD(a, b) == IF b = 0 THEN a ELSE GCD(b, a % b)

(* n/d as a cell: 0/0 is NaN, x/0 is an infinity of the sign of x *)
Norm(n, d) ==
    IF d = 0 THEN (IF n = 0 THEN NaN ELSE <<Sign(n), 0>>)
    ELSE LET g == GCD(Abs(n), Abs(d))
             s == IF d < 0 THEN -1 ELSE 1
         IN  <<(s * n) \div g, (s * d) \div g>>

(* float division of two cells, as pandas/numpy do it: NaN propagates,     *)
(* x/0 is +-inf for x # 0 and 0/0 is NaN; nothing is raised                *)
FDiv(a, b) ==
    IF isna(a) \/ isna(b) THEN NaN
    ELSE Norm(a[1] * b[2] * (IF b[1] < 0 THEN -1 ELSE 1), a[2] * Abs(b[1]))

FSub(a, b) ==
    IF isna(a) \/ isna(b) THEN NaN
    ELSE Norm(a[1] * b[2] - b[1] * a[2], a[2] * b[2])

FAdd(a, b) ==
    IF isna(a) \/ isna(b) THEN NaN
    ELSE Norm(a[1] * b[2] + b[1] * a[2], a[2] * b[2])

FMul(a, b) ==
    IF isna(a) \/ isna(b) THEN NaN
    ELSE Norm(a[1] * b[1], a[2] * b[2])

(* comparisons of finite numbers; any comparison with NaN is false *)
FLess(a, b) == IsFinite(a) /\ IsFinite(b) /\ a[1] * b[2] < b[1] * a[2]

FLeq(a, b) == IsFinite(a) /\ IsFinite(b) /\ a[1] * b[2] <= b[1] * a[2]

-----------------------------------------------------------------------------
(* Tables *)

Range(s) == {s[i] : i \in DOMAIN s}

Table(cs, rs) == [cols |-> cs, rows |-> rs]

EmptyTable == Table({}, <<>>)

Column(df, c) == [i \in DOMAIN df.rows |-> df.rows[i][c]]

(* df[[...]] for columns that are present *)
SelectColumns(df, cs) ==
    Table(cs, [i \in DOMAIN df.rows |-> [c \in cs |-> df.rows[i][c]]])

(* df.rename(columns=m): a name that is no column of df is ignored *)
Rename(df, m) ==
    LET NewName(c) == IF c \in DOMAIN m THEN m[c] ELSE c
        OldName(d) == CHOOSE c \in df.cols : NewName(c) = d
        newcols == {NewName(c) : c \in df.cols}
    IN  Table(newcols,
              [i \in DOMAIN df.rows |-> [d \in newcols |-> df.rows[i][OldName(d)]]])

(* df[name] = values: a column is added or replaced, the rows stay in place *)
SetColumn(df, name, values) ==
    LET newcols == df.cols \cup {name}
    IN  Table(newcols,
              [i \in DOMAIN df.rows |->
                  [c \in newcols |-> IF c = name THEN values[i] ELSE df.rows[i][c]]])

(* pd.concat([a, b]): the union of the columns, a missing cell is NaN *)
Concat(a, b) ==
    LET cs == a.cols \cup b.cols
        Widen(df, r) == [c \in cs |-> IF c \in df.cols THEN r[c] ELSE NaN]
    IN  Table(cs, [i \in DOMAIN a.rows |-> Widen(a, a.rows[i])]
                  \o [i \in DOMAIN b.rows |-> Widen(b, b.rows[i])])

RECURSIVE RowsAt(_, _, _)
RowsAt(rows, mask, i) ==
    IF i > Len(rows) THEN <<>>
    ELSE (IF i \in mask THEN <<rows[i]>> ELSE <<>>) \o RowsAt(rows, mask, i + 1)

(* df[mask]: the rows whose position is in the mask, in their order *)
FilterRows(df, mask) == Table(df.cols, RowsAt(df.rows, mask, 1))

RowComplete(df, r) == \A c \in df.cols : ~isna(r[c])

(* the filter compares the wrong column, so it removes nothing *)
ExcludeYear_WrongColumn(df, year) ==
    FilterRows(df, {i \in DOMAIN df.rows : df.rows[i]["Rank"] # Num(year)})

(* df[df["Year"] != year] *)
ExcludeYear(df, year) ==
    FilterRows(df, {i \in DOMAIN df.rows : df.rows[i]["Year"] # Num(year)})

(* df.dropna(): a row with a missing value in ANY column is dropped *)
Dropna(df) ==
    FilterRows(df, {i \in DOMAIN df.rows : RowComplete(df, df.rows[i])})

RECURSIVE InsertRow(_, _, _)
InsertRow(s, r, by) ==
    IF s = <<>> THEN <<r>>
    ELSE IF FLess(r[by], Head(s)[by]) THEN <<r>> \o s
    ELSE <<Head(s)>> \o InsertRow(Tail(s), r, by)

RECURSIVE SortRows(_, _)
SortRows(s, by) ==
    IF s = <<>> THEN <<>>
    ELSE InsertRow(SortRows(SubSeq(s, 1, Len(s) - 1), by), s[Len(s)], by)

(* df.sort_values(by=[by]): ascending, missing values last; for tables of  *)
(* this size numpy's sort is an insertion sort, which keeps equal keys in  *)
(* their order                                                             *)
SortValues(df, by) ==
    Table(df.cols,
          SortRows(SelectSeq(df.rows, LAMBDA r : ~isna(r[by])), by)
          \o SelectSeq(df.rows, LAMBDA r : isna(r[by])))

-----------------------------------------------------------------------------
(* The column names and constants of the script *)

Metrics ==
    <<"GDP per capita", "Social Support", "Healthy Life Expectancy",
      "Freedom", "Generosity", "Government Trust">>

ExplainedBy ==
    <<"Explained by: Log GDP per capita", "Explained by: Social support",
      "Explained by: Healthy life expectancy",
      "Explained by: Freedom to make life choices",
      "Explained by: Generosity", "Explained by: Perceptions of corruption">>

Residual == "Dystopia + residual"

(* the nine columns selected from WHR2024.csv *)
SelectedColumns ==
    {"Country name", "Ladder score", Residual} \cup Range(ExplainedBy)

RenameColumns2024 ==
    [c \in {"Country name", "Ladder score"} \cup Range(ExplainedBy) |->
        IF c = "Country name" THEN "Country"
        ELSE IF c = "Ladder score" THEN "Happiness Score"
        ELSE Metrics[CHOOSE k \in DOMAIN ExplainedBy : ExplainedBy[k] = c]]

RenameColumnsYears == [c \in {"Index"} |-> "Happiness Score"]

ContributionColumns ==
    <<"GDP per capita_contribution", "Social Support_contribution",
      "Healthy Life Expectancy_contribution", "Freedom_contribution",
      "Generosity_contribution", "trust_contribution">>

(* the columns of df_2024_factors, before the categories are added *)
FactorColumns ==
    {"Country", "Happiness Score", Residual} \cup Range(Metrics)

(* the seven columns categorized, in the order of the script *)
QcutColumns == Metrics \o <<"Happiness Score">>

CategoryColumns ==
    <<"GDP per capita_category", "Social Support_category",
      "Healthy Life Expectancy_category", "Freedom_category",
      "Generosity_category", "Government Trust_category",
      "Happiness Score_category">>

categories == <<"Low", "Average", "High">>

(* the seven columns correlated, in the order of the script *)
CorrelationVariables == <<"Happiness Score">> \o Metrics

RenameTopFactors ==
    [c \in {"index", "Happiness Score"} |->
        IF c = "index" THEN "Factor" ELSE "Correlation with Happiness Score"]

(* the options of the six category selectors; the option None, listed      *)
(* first and labelled "All", is the empty tuple                            *)
menu == <<"High", "Average", "Low">>

RenameContribution ==
    [c \in Range(ContributionColumns) |->
        Metrics[CHOOSE k \in DOMAIN ContributionColumns : ContributionColumns[k] = c]]

(* the columns world_years is made of *)
WorldYearsColumns == {"iso_numeric", "Difference_Country", "Year", "Country"}

SliderMin == 2015

SliderMax == 2024

ChartYear == 2024

Map2Year == 2015

FoldFirstYear == 2013

FoldLastYear == 2024

Antarctica == 10

Greenland == 304

(* what map2 takes for a value that is not valid *)
NoData == Num(-1)

(* the country converter, as far as the names of the model go: the ISO     *)
(* numeric code and the ISO3 code of a name, "not found" for a name it     *)
(* does not know.  Two spellings of one country have one code              *)
CountryCodes ==
    << <<"Afghanistan", 4, "AFG">>, <<"Finland", 246, "FIN">>,
       <<"Chile", 152, "CHL">>, <<"Denmark", 208, "DNK">>,
       <<"Iceland", 352, "ISL">>, <<"Norway", 578, "NOR">>,
       <<"Sweden", 752, "SWE">>, <<"Israel", 376, "ISR">>,
       <<"Netherlands", 528, "NLD">>, <<"Switzerland", 756, "CHE">>,
       <<"Turkey", 792, "TUR">>, <<"Turkiye", 792, "TUR">> >>

NotFound == Str("not found")

(* coco.convert(names=x, to="isocode") of one name *)
IsoNumeric(name) ==
    IF \E k \in DOMAIN CountryCodes : Str(CountryCodes[k][1]) = name
    THEN Num(CountryCodes[CHOOSE k \in DOMAIN CountryCodes :
                              Str(CountryCodes[k][1]) = name][2])
    ELSE NotFound

(* coco.convert(names=x, to="ISO3") of one name *)
Iso3(name) ==
    IF \E k \in DOMAIN CountryCodes : Str(CountryCodes[k][1]) = name
    THEN Str(CountryCodes[CHOOSE k \in DOMAIN CountryCodes :
                              Str(CountryCodes[k][1]) = name][3])
    ELSE NotFound

(* the ids of the shapes of world_110m "countries" the model draws: the    *)
(* countries above, Antarctica, Greenland, and the shape of Somaliland,    *)
(* which has no ISO code and the id -99                                    *)
WorldIds ==
    {CountryCodes[k][2] : k \in DOMAIN CountryCodes} \cup {Antarctica, Greenland, -99}

SnapshotYear == 2024

ExcludedYearA == 2014

ExcludedYearB == 2013

TopN == 10

NumQuantiles == 3

-----------------------------------------------------------------------------
(* Series operations *)

(* Series.rank(ascending=False): method="average", a missing value keeps   *)
(* a missing rank.  A value with k larger values and m equal ones (itself   *)
(* included) gets the mean of the positions k+1 .. k+m                     *)
RankDescending(values) ==
    [i \in DOMAIN values |->
        IF isna(values[i]) THEN NaN
        ELSE LET k == Cardinality({j \in DOMAIN values : FLess(values[i], values[j])})
                 m == Cardinality({j \in DOMAIN values : values[j] = values[i]})
             IN  Norm(2 * k + m + 1, 2)]

RECURSIVE SumCells(_, _)
SumCells(values, S) ==
    IF S = {} THEN Num(0)
    ELSE LET j == CHOOSE x \in S : TRUE
         IN  FAdd(values[j], SumCells(values, S \ {j}))

(* the rows that enter the mean of row i's group: same key, value present *)
GroupOf(df, key, value, i) ==
    {j \in DOMAIN df.rows :
        df.rows[j][key] = df.rows[i][key] /\ ~isna(df.rows[j][value])}

(* the mean taken over every year of the table: a year in which the group *)
(* has no row counts as a zero                                             *)
GroupMean_CountsMissingYears(df, key, value) ==
    [i \in DOMAIN df.rows |->
        LET G == GroupOf(df, key, value, i)
        IN  IF isna(df.rows[i][key]) \/ G = {} THEN NaN
            ELSE FDiv(SumCells(Column(df, value), G),
                      Num(Cardinality({df.rows[j]["Year"] : j \in DOMAIN df.rows})))]

(* df.groupby(key)[value].transform("mean") *)
GroupMean(df, key, value) ==
    [i \in DOMAIN df.rows |->
        LET G == GroupOf(df, key, value, i)
        IN  IF isna(df.rows[i][key]) \/ G = {} THEN NaN
            ELSE FDiv(SumCells(Column(df, value), G), Num(Cardinality(G)))]

(* the i-th smallest (from 0) of a sequence of finite numbers *)
KthSmallest(xs, i) ==
    CHOOSE v \in Range(xs) :
        /\ Cardinality({j \in DOMAIN xs : FLess(xs[j], v)}) <= i
        /\ i < Cardinality({j \in DOMAIN xs : FLeq(xs[j], v)})

(* Series.quantile(k/q) of the values present, linear interpolation *)
Quantile(values, k, q) ==
    LET xs == SelectSeq(values, LAMBDA x : ~isna(x))
        h  == (Len(xs) - 1) * k
        i  == h \div q
        r  == h % q
    IN  IF r = 0 THEN KthSmallest(xs, i)
        ELSE FAdd(KthSmallest(xs, i),
                  FMul(<<r, q>>, FSub(KthSmallest(xs, i + 1), KthSmallest(xs, i))))

(* the q+1 bin edges of pd.qcut: the quantiles 0, 1/q, .., 1 *)
QcutBins(values, q) == [k \in 0 .. q |-> Quantile(values, k, q)]

(* the bins closed on the left (right=False): a value on an inner edge     *)
(* falls into the upper bin                                                *)
BinOf_LeftClosed(x, bins, q) ==
    IF x = bins[q] THEN q
    ELSE Cardinality({k \in 0 .. q : FLeq(bins[k], x)})

(* _bins_to_cuts with right=True, include_lowest=True: the number of edges *)
(* strictly below x (searchsorted side="left"), the minimum moved into the *)
(* first bin                                                               *)
BinOf(x, bins, q) ==
    IF x = bins[0] THEN 1
    ELSE Cardinality({k \in 0 .. q : FLess(bins[k], x)})

(* pd.qcut(values, q=3, labels=categories): raises ValueError("Bin edges    *)
(* must be unique") when two edges coincide, else labels every value        *)
Qcut(values, q, labels) ==
    LET present == \E i \in DOMAIN values : ~isna(values[i])
        bins == QcutBins(values, q)
    IN  IF ~present \/ Cardinality(Range(bins)) < q + 1
        THEN [raised |-> TRUE, values |-> <<>>]
        ELSE [raised |-> FALSE,
              values |-> [i \in DOMAIN values |->
                            IF isna(values[i]) THEN NaN
                            ELSE Str(labels[BinOf(values[i], bins, q)])]]

RECURSIVE SumInts(_, _)
SumInts(f, S) ==
    IF S = {} THEN 0
    ELSE LET j == CHOOSE x \in S : TRUE
         IN  f[j] + SumInts(f, S \ {j})

(* twice the average rank of values[i] among the rows S: a value with k    *)
(* smaller values and m equal ones (itself included) has the average rank   *)
(* k + (m + 1) / 2                                                         *)
DoubledRank(values, S, i) ==
    2 * Cardinality({j \in S : FLess(values[j], values[i])})
    + Cardinality({j \in S : values[j] = values[i]}) + 1

(* n * sum(x * y) - sum(x) * sum(y) over the rows S: n * n times the       *)
(* covariance of x and y                                                   *)
Covariation(x, y, S) ==
    Cardinality(S) * SumInts([i \in S |-> x[i] * y[i]], S)
    - SumInts(x, S) * SumInts(y, S)

(* the covariance divided by the variance of x, the slope of the           *)
(* regression of y on x, in place of the correlation                       *)
Pearson_Slope(x, y, S) ==
    LET sxy == Covariation(x, y, S)
        sxx == Covariation(x, x, S)
    IN  Norm(Sign(sxy) * sxy * sxy, sxx * sxx)

(* Pearson's r of x and y over the rows S.  r = sxy / sqrt(sxx * syy) is   *)
(* irrational in general: the cell holds r * |r|, the square of r with the *)
(* sign of r, which is 1, 0, -1 exactly where r is and orders as r does.   *)
(* A column constant over S has sxx = 0 and the result is NaN              *)
Pearson(x, y, S) ==
    LET sxy == Covariation(x, y, S)
        sxx == Covariation(x, x, S)
        syy == Covariation(y, y, S)
    IN  Norm(Sign(sxy) * sxy * sxy, sxx * syy)

(* one entry of DataFrame.corr(method="spearman"): the rows where both     *)
(* columns have a value are ranked, ties averaged, and the ranks           *)
(* correlated                                                              *)
Spearman(df, a, b) ==
    LET S  == {i \in DOMAIN df.rows : ~isna(df.rows[i][a]) /\ ~isna(df.rows[i][b])}
        ra == [i \in S |-> DoubledRank(Column(df, a), S, i)]
        rb == [i \in S |-> DoubledRank(Column(df, b), S, i)]
    IN  Pearson(ra, rb, S)

(* df[names].corr(method="spearman"): one row and one column per name; the *)
(* row labels are held in the column "index"                               *)
Corr(df, names) ==
    Table(Range(names) \cup {"index"},
          [k \in DOMAIN names |->
              [c \in Range(names) \cup {"index"} |->
                  IF c = "index" THEN Str(names[k]) ELSE Spearman(df, names[k], c)]])

(* matrix.stack().reset_index().rename(...): one row per entry of the      *)
(* matrix, row by row; stack() leaves out the entries that are NaN         *)
Stack(matrix, names) ==
    LET n == Len(names)
        all == [e \in 1 .. n * n |->
                   LET i == ((e - 1) \div n) + 1
                       j == ((e - 1) % n) + 1
                   IN  [c \in {"Variable 1", "Variable 2", "correlation"} |->
                          IF c = "Variable 1" THEN matrix.rows[i]["index"]
                          ELSE IF c = "Variable 2" THEN Str(names[j])
                          ELSE matrix.rows[i][names[j]]]]
    IN  FilterRows(Table({"Variable 1", "Variable 2", "correlation"}, all),
                   {e \in DOMAIN all : ~isna(all[e]["correlation"])})

RECURSIVE InsertRowDescending(_, _, _)
InsertRowDescending(s, r, by) ==
    IF s = <<>> THEN <<r>>
    ELSE IF FLess(Head(s)[by], r[by]) THEN <<r>> \o s
    ELSE <<Head(s)>> \o InsertRowDescending(Tail(s), r, by)

RECURSIVE SortRowsDescending(_, _)
SortRowsDescending(s, by) ==
    IF s = <<>> THEN <<>>
    ELSE InsertRowDescending(SortRowsDescending(SubSeq(s, 1, Len(s) - 1), by),
                             s[Len(s)], by)

(* df.sort_values(by=by, ascending=False): missing values last, equal keys *)
(* in their order                                                          *)
SortValuesDescending(df, by) ==
    Table(df.cols,
          SortRowsDescending(SelectSeq(df.rows, LAMBDA r : ~isna(r[by])), by)
          \o SelectSeq(df.rows, LAMBDA r : isna(r[by])))

(* df.melt(id_vars=id, var_name=.., value_name=..): one row per variable   *)
(* and row of df, the variables in the order of the columns                *)
Melt(df, id, variables, var_name, value_name) ==
    LET n == Len(df.rows)
    IN  Table({id, var_name, value_name},
              [e \in 1 .. Len(variables) * n |->
                  LET k == ((e - 1) \div n) + 1
                      i == ((e - 1) % n) + 1
                  IN  [c \in {id, var_name, value_name} |->
                         IF c = id THEN df.rows[i][id]
                         ELSE IF c = var_name THEN Str(variables[k])
                         ELSE df.rows[i][variables[k]]]])

(* df.drop_duplicates(subset): of the rows that agree on the subset the    *)
(* first is kept                                                           *)
DropDuplicates(df, subset) ==
    FilterRows(df, {i \in DOMAIN df.rows :
                      \A j \in 1 .. i - 1 :
                         \E c \in subset : df.rows[j][c] # df.rows[i][c]})

(* df.pivot(index=index, columns=columns, values=values).reset_index():    *)
(* one row per combination of the index columns, one column per value of   *)
(* the columns column, NaN where df has no row.  The rows are listed as    *)
(* the combinations first appear (their sorting is not modelled)           *)
Pivot(df, index, columns, values) ==
    LET firsts == DropDuplicates(df, index).rows
        names  == {df.rows[i][columns][1] : i \in DOMAIN df.rows}
        Cell(f, c) ==
            LET S == {j \in DOMAIN df.rows :
                        /\ \A x \in index : df.rows[j][x] = f[x]
                        /\ df.rows[j][columns] = Str(c)}
            IN  IF S = {} THEN NaN ELSE df.rows[CHOOSE j \in S : TRUE][values]
    IN  Table(index \cup names,
              [k \in DOMAIN firsts |->
                  [c \in index \cup names |->
                      IF c \in index THEN firsts[k][c] ELSE Cell(firsts[k], c)]])

(* Series.astype(int).astype(str) of a year *)
YearString(x) == Str(ToString(x[1] \div x[2]))

(* transform_lookup: the row of df joined onto the shape id, 0 when no row *)
(* has that key; of several rows with the key the lookup keeps the last    *)
LookupRow(df, key, id) ==
    LET S == {i \in DOMAIN df.rows : df.rows[i][key] = Num(id)}
    IN  IF S = {} THEN 0 ELSE CHOOSE i \in S : \A j \in S : j <= i

(* an empty selection filters nothing out: only a selection with a value   *)
(* passes every shape, also those without data                             *)
PassesSelection_EmptySelectsNone(df, sel, k, id) ==
    /\ sel[k] # <<>>
    /\ LET i == LookupRow(df, "Country_iso_numeric", id)
       IN  i # 0 /\ df.rows[i][CategoryColumns[k]] = Str(sel[k][1])

(* transform_filter(selection) of the k-th category selector: an empty     *)
(* selection (the option None, "All") passes every shape; a value passes   *)
(* the shapes whose joined row has that category                           *)
PassesSelection(df, sel, k, id) ==
    \/ sel[k] = <<>>
    \/ LET i == LookupRow(df, "Country_iso_numeric", id)
       IN  i # 0 /\ df.rows[i][CategoryColumns[k]] = Str(sel[k][1])

(* only the filter of the last selector of the chain that has a value is   *)
(* applied: each transform_filter replaces the one before it               *)
FilterChain_LastWins(df, sel, ids, order) ==
    LET active == {n \in DOMAIN order : sel[order[n]] # <<>>}
    IN  IF active = {} THEN ids
        ELSE LET last == CHOOSE n \in active : \A m \in active : m <= n
             IN  {id \in ids : PassesSelection(df, sel, order[last], id)}

(* the chain of transform_filter calls: each filter is applied to what the *)
(* one before it let through                                               *)
RECURSIVE FilterChain(_, _, _, _)
FilterChain(df, sel, ids, order) ==
    IF order = <<>> THEN ids
    ELSE FilterChain(df, sel,
                     {id \in ids : PassesSelection(df, sel, Head(order), id)},
                     Tail(order))

(* the order of the six transform_filter calls of world_factors *)
FilterOrder == <<1, 2, 3, 4, 5, 6>>

(* the shapes world_factors draws: Antarctica and Greenland are filtered   *)
(* out, then the six selections are applied                                *)
WorldFactors(df, sel) ==
    FilterChain(df, sel, WorldIds \ {Antarctica, Greenland}, FilterOrder)

(* the value map2 has for a shape in a year after its lookup, fold and     *)
(* calculate: the Difference_Country of the joined row, -1 when the shape  *)
(* has no row, the table no column for the year or the row no value        *)
Map2Value(wy, id, year) ==
    LET i == LookupRow(wy, "iso_numeric", id)
        c == ToString(year)
        v == IF i = 0 \/ year \notin FoldFirstYear .. FoldLastYear \/ c \notin wy.cols
             THEN NaN ELSE wy.rows[i][c]
    IN  IF isna(v) THEN NoData ELSE v

(* the colour condition of map2: datum.Difference_Country > -1 *)
Map2Colour(wy, id, year) ==
    IF FLess(NoData, Map2Value(wy, id, year)) THEN "scale" ELSE "fallback"

-----------------------------------------------------------------------------
(* The inputs: the two csv files as read by pd.read_csv *)

MaxSnap == 4

MaxHist == 2

CountryNames ==
    <<"Afghanistan", "Finland", "Somaliland", "Chile", "Denmark", "Iceland",
      "Norway", "Sweden", "Israel", "Netherlands", "Switzerland">>

(* sequences of at most n kinds, in the order of their numbers *)
KindSequences(kinds, lo, n) ==
    {ks \in UNION {[1 .. m -> DOMAIN kinds] : m \in lo .. n} :
        \A i \in 1 .. Len(ks) - 1 : ks[i] <= ks[i + 1]}

(* rows a WHR2024.csv can hold: the ladder score, the six "Explained by"   *)
(* values and the residual.  Rows 1-4 differ in every column; row 4 has a   *)
(* zero score; row 5 has no score and shares values with rows 1 and 3.     *)
(* The file lists the countries by descending ladder score, as the kinds   *)
(* are numbered                                                            *)
SnapshotKinds ==
    << [score |-> Num(7), m |-> <<3, 2, 3, 1, 1, 3>>, resid |-> Num(2)],
       [score |-> Num(6), m |-> <<2, 3, 1, 2, 3, 2>>, resid |-> Num(1)],
       [score |-> Num(4), m |-> <<1, 1, 2, 3, 2, 0>>, resid |-> Num(3)],
       [score |-> Num(0), m |-> <<0, 0, 0, 0, 0, 1>>, resid |-> Num(0)],
       [score |-> NaN,    m |-> <<3, 1, 2, 4, 4, 4>>, resid |-> NaN] >>

RawColumns2024 == SelectedColumns \cup {"upperwhisker"}

SnapshotRow(i, kind) ==
    [c \in RawColumns2024 |->
        IF c = "Country name" THEN Str(CountryNames[i])
        ELSE IF c = "Ladder score" THEN kind.score
        ELSE IF c = Residual THEN kind.resid
        ELSE IF c = "upperwhisker" THEN FAdd(kind.score, Num(1))
        ELSE Num(kind.m[CHOOSE k \in DOMAIN ExplainedBy : ExplainedBy[k] = c])]

(* the snapshot whose i-th row is of kind ks[i]; the i-th country is       *)
(* CountryNames[i], so a snapshot has one row per country                  *)
Snapshot(ks) ==
    Table(RawColumns2024, [i \in DOMAIN ks |-> SnapshotRow(i, SnapshotKinds[ks[i]])])

SnapshotTables ==
    {Snapshot(ks) : ks \in KindSequences(SnapshotKinds, 1, MaxSnap)}

SnapshotDefault == Snapshot(<<1, 2, 3>>)

(* the default snapshot with one of the nine selected columns absent *)
SnapshotsLackingColumn ==
    {SelectColumns(SnapshotDefault, RawColumns2024 \ {c}) : c \in SelectedColumns}

(* rows a WorldHappinessIndex2013-2023.csv can hold *)
HistoryKinds ==
    << [Country |-> Str("Finland"),     Year |-> Num(2015), Index |-> Num(7), Rank |-> Num(1)],
       [Country |-> Str("Afghanistan"), Year |-> Num(2015), Index |-> Num(3), Rank |-> Num(2)],
       [Country |-> Str("Finland"),     Year |-> Num(2016), Index |-> Num(5), Rank |-> Num(1)],
       [Country |-> Str("Finland"),     Year |-> Num(2013), Index |-> Num(8), Rank |-> Num(1)],
       [Country |-> Str("Afghanistan"), Year |-> Num(2014), Index |-> Num(4), Rank |-> Num(1)],
       [Country |-> Str("Afghanistan"), Year |-> Num(2016), Index |-> NaN,    Rank |-> Num(2)],
       [Country |-> NaN,                Year |-> Num(2017), Index |-> Num(6), Rank |-> Num(1)] >>

HistoryColumns == {"Country", "Year", "Index", "Rank"}

(* the column sets a multi-year file is tried with: the four columns, one  *)
(* of them absent, or a fifth column the script does not name              *)
HistoryColumnSets ==
    {HistoryColumns, HistoryColumns \cup {"Region"}}
    \cup {HistoryColumns \ {c} : c \in HistoryColumns}

HistoryRow(cs, kind) ==
    [c \in cs |-> IF c = "Region" THEN Str("Europe") ELSE kind[c]]

History(cs, ks) ==
    Table(cs, [i \in DOMAIN ks |-> HistoryRow(cs, HistoryKinds[ks[i]])])

HistoryTables ==
    {History(cs, ks) :
        cs \in HistoryColumnSets,
        ks \in KindSequences(HistoryKinds, 0, MaxHist)}

HistoryDefault == History(HistoryColumns, <<2, 1, 3, 5, 6>>)

(* a WHR2024.csv of eleven countries, one more than the leaderboard       *)
(* shows: the i-th has the score 12 - i, or, with a tie at the tenth       *)
(* place, the eleventh has the score of the tenth                          *)
ElevenKind(i, tie) ==
    [score |-> Num(IF tie /\ i = 11 THEN 2 ELSE 12 - i),
     m     |-> <<i, 12 - i, (i * 3) % 11, (i * 5) % 11, (i * 7) % 11, (i * 2) % 11>>,
     resid |-> Num(1)]

SnapshotsOfEleven ==
    {Table(RawColumns2024, [i \in 1 .. 11 |-> SnapshotRow(i, ElevenKind(i, tie))]) :
        tie \in BOOLEAN}

(* rows of a multi-year file whose names the country converter maps to one *)
(* code (two spellings of a country) or does not know                      *)
GeoKinds ==
    << [Country |-> Str("Turkey"),       Year |-> Num(2015), Index |-> Num(5), Rank |-> Num(3)],
       [Country |-> Str("Turkiye"),      Year |-> Num(2016), Index |-> Num(6), Rank |-> Num(2)],
       [Country |-> Str("Turkiye"),      Year |-> Num(2015), Index |-> Num(4), Rank |-> Num(4)],
       [Country |-> Str("Somaliland"),   Year |-> Num(2015), Index |-> Num(3), Rank |-> Num(5)],
       [Country |-> Str("North Cyprus"), Year |-> Num(2015), Index |-> Num(6), Rank |-> Num(2)] >>

GeoHistoryTables ==
    {Table(HistoryColumns, [i \in DOMAIN ks |-> GeoKinds[ks[i]]]) :
        ks \in KindSequences(GeoKinds, 1, MaxHist)}

Inputs ==
    (SnapshotTables \X {HistoryDefault})
    \cup ({SnapshotDefault} \X HistoryTables)
    \cup (SnapshotsLackingColumn \X {HistoryDefault})
    \cup (SnapshotsOfEleven \X {HistoryDefault})
    \cup ({SnapshotDefault} \X GeoHistoryTables)

-----------------------------------------------------------------------------
(* The script, one action per statement or block of statements *)

NoError == [type |-> "none", what |-> {}]

(* the state after the two pd.read_csv calls, for a pair of files *)
Start(in) ==
    /\ raw_2024 = in[1]
    /\ raw_years = in[2]
    /\ df_2024 = in[1]
    /\ df_years = in[2]
    /\ pc = "sort_years"
    /\ df_2024_years = EmptyTable
    /\ df_top10 = EmptyTable
    /\ df_2024_top10 = EmptyTable
    /\ df_2024_factors = EmptyTable
    /\ charts = {}
    /\ error = NoError
    /\ spearman_cormatrix = EmptyTable
    /\ heatmap_df = EmptyTable
    /\ df_contribution = EmptyTable
    /\ world_years = EmptyTable
    /\ select_year_chart = <<>>
    /\ selections = <<>>
    /\ world_factors = {}
    /\ country_dropdown = {}
    /\ selection_country = <<>>
    /\ select_year_map2 = <<>>

Init == \E in \in Inputs : Start(in)

(* an uncaught exception ends the script *)
Raise(type, what) ==
    /\ pc' = "aborted"
    /\ error' = [type |-> type, what |-> what]
    /\ UNCHANGED <<raw_2024, raw_years, df_2024, df_2024_years, df_years,
                   df_top10, df_2024_top10, df_2024_factors, charts,
                   reshaped, controls>>

SortYears ==
    /\ pc = "sort_years"
    /\ IF "Rank" \notin df_years.cols
       THEN Raise("KeyError", {"Rank"})
       ELSE /\ df_years' = SortValues(df_years, "Rank")
            /\ pc' = "select_2024"
            /\ UNCHANGED <<raw_2024, raw_years, df_2024, df_2024_years, df_top10,
                           df_2024_top10, df_2024_factors, charts, error,
                   reshaped, controls>>

Select2024 ==
    /\ pc = "select_2024"
    /\ IF ~(SelectedColumns \subseteq df_2024.cols)
       THEN Raise("KeyError", SelectedColumns \ df_2024.cols)
       ELSE /\ df_2024' = SelectColumns(df_2024, SelectedColumns)
            /\ pc' = "rename_2024"
            /\ UNCHANGED <<raw_2024, raw_years, df_2024_years, df_years, df_top10,
                           df_2024_top10, df_2024_factors, charts, error,
                   reshaped, controls>>

Rename2024 ==
    /\ pc = "rename_2024"
    /\ df_2024' = Rename(df_2024, RenameColumns2024)
    /\ pc' = "rank_2024"
    /\ UNCHANGED <<raw_2024, raw_years, df_2024_years, df_years, df_top10,
                   df_2024_top10, df_2024_factors, charts, error,
                   reshaped, controls>>

Rank2024 ==
    /\ pc = "rank_2024"
    /\ df_2024' = SetColumn(df_2024, "Rank",
                            RankDescending(Column(df_2024, "Happiness Score")))
    /\ pc' = "tag_2024"
    /\ UNCHANGED <<raw_2024, raw_years, df_2024_years, df_years, df_top10,
                   df_2024_top10, df_2024_factors, charts, error,
                   reshaped, controls>>

Tag2024 ==
    /\ pc = "tag_2024"
    /\ df_2024_years' =
          LET t == SelectColumns(df_2024, {"Country", "Happiness Score", "Rank"})
          IN  SetColumn(t, "Year", [i \in DOMAIN t.rows |-> Num(SnapshotYear)])
    /\ pc' = "rename_years"
    /\ UNCHANGED <<raw_2024, raw_years, df_2024, df_years, df_top10,
                   df_2024_top10, df_2024_factors, charts, error,
                   reshaped, controls>>

RenameYears ==
    /\ pc = "rename_years"
    /\ df_years' = Rename(df_years, RenameColumnsYears)
    /\ pc' = "concat"
    /\ UNCHANGED <<raw_2024, raw_years, df_2024, df_2024_years, df_top10,
                   df_2024_top10, df_2024_factors, charts, error,
                   reshaped, controls>>

ConcatYears ==
    /\ pc = "concat"
    /\ df_years' = Concat(df_years, df_2024_years)
    /\ pc' = "dropna"
    /\ UNCHANGED <<raw_2024, raw_years, df_2024, df_2024_years, df_top10,
                   df_2024_top10, df_2024_factors, charts, error,
                   reshaped, controls>>

DropnaYears ==
    /\ pc = "dropna"
    /\ df_years' = Dropna(df_years)
    /\ pc' = "exclude_2014"
    /\ UNCHANGED <<raw_2024, raw_years, df_2024, df_2024_years, df_top10,
                   df_2024_top10, df_2024_factors, charts, error,
                   reshaped, controls>>

Exclude2014 ==
    /\ pc = "exclude_2014"
    /\ df_years' = ExcludeYear(df_years, ExcludedYearA)
    /\ pc' = "exclude_2013"
    /\ UNCHANGED <<raw_2024, raw_years, df_2024, df_2024_years, df_top10,
                   df_2024_top10, df_2024_factors, charts, error,
                   reshaped, controls>>

Exclude2013 ==
    /\ pc = "exclude_2013"
    /\ df_years' = ExcludeYear(df_years, ExcludedYearB)
    /\ pc' = "top10"
    /\ UNCHANGED <<raw_2024, raw_years, df_2024, df_2024_years, df_top10,
                   df_2024_top10, df_2024_factors, charts, error,
                   reshaped, controls>>

(* df_top10, the year slider and the leaderboard chart built on them *)
Top10 ==
    /\ pc = "top10"
    /\ df_top10' = FilterRows(df_years, {i \in DOMAIN df_years.rows :
                                         FLeq(df_years.rows[i]["Rank"], Num(TopN))})
    /\ select_year_chart' = <<ChartYear>>
    /\ charts' = charts \cup {"chart"}
    /\ pc' = "breakup"
    /\ UNCHANGED <<raw_2024, raw_years, df_2024, df_2024_years, df_years,
                   df_2024_top10, df_2024_factors, error, spearman_cormatrix,
                   heatmap_df, df_contribution, world_years, selections,
                   world_factors, country_dropdown, selection_country,
                   select_year_map2>>

(* df_2024_top10 and the score breakup chart; chart1 joins the two charts *)
Breakup ==
    /\ pc = "breakup"
    /\ df_2024_top10' =
          SelectColumns(FilterRows(df_2024, {i \in DOMAIN df_2024.rows :
                                         FLeq(df_2024.rows[i]["Rank"], Num(TopN))}),
                        {"Country", Residual} \cup Range(Metrics))
    /\ charts' = charts \cup {"countries_explained", "chart1"}
    /\ pc' = "contribution"
    /\ UNCHANGED <<raw_2024, raw_years, df_2024, df_2024_years, df_years,
                   df_top10, df_2024_factors, error,
                   reshaped, controls>>

(* one contribution column: the metric divided by the score, row by row *)
ContributionOf(df, metric) ==
    [i \in DOMAIN df.rows |-> FDiv(df.rows[i][metric], df.rows[i]["Happiness Score"])]

RECURSIVE AddContributions(_, _)
AddContributions(df, k) ==
    IF k = 0 THEN df
    ELSE LET before == AddContributions(df, k - 1)
         IN  SetColumn(before, ContributionColumns[k],
                       ContributionOf(before, Metrics[k]))

Contribution ==
    /\ pc = "contribution"
    /\ df_2024' = AddContributions(df_2024, Len(Metrics))
    /\ pc' = "correlation"
    /\ UNCHANGED <<raw_2024, raw_years, df_2024_years, df_years, df_top10,
                   df_2024_top10, df_2024_factors, charts, error,
                   reshaped, controls>>

Correlation ==
    /\ pc = "correlation"
    /\ spearman_cormatrix' = Corr(df_2024, CorrelationVariables)
    /\ pc' = "heatmap"
    /\ UNCHANGED <<raw_2024, raw_years, df_2024, df_2024_years, df_years, df_top10,
                   df_2024_top10, df_2024_factors, charts, error,
                   heatmap_df, df_contribution, world_years, controls>>

(* heatmap_df and the heatmap with its text layer *)
Heatmap ==
    /\ pc = "heatmap"
    /\ heatmap_df' = Stack(spearman_cormatrix, CorrelationVariables)
    /\ charts' = charts \cup {"heatmap"}
    /\ pc' = "top_factors"
    /\ UNCHANGED <<raw_2024, raw_years, df_2024, df_2024_years, df_years, df_top10,
                   df_2024_top10, df_2024_factors, error,
                   spearman_cormatrix, df_contribution, world_years, controls>>

(* spearman_cormatrix is cut down, in place, to the correlations with the  *)
(* Happiness Score, sorted; top_factors is drawn on it and chart2 joins it *)
(* to the heatmap                                                          *)
TopFactors ==
    /\ pc = "top_factors"
    /\ spearman_cormatrix' =
          LET column == SelectColumns(spearman_cormatrix, {"index", "Happiness Score"})
              metrics == FilterRows(column, {i \in DOMAIN column.rows :
                                        column.rows[i]["index"] # Str("Happiness Score")})
          IN  SortValuesDescending(Rename(metrics, RenameTopFactors),
                                   "Correlation with Happiness Score")
    /\ charts' = charts \cup {"top_factors", "chart2"}
    /\ pc' = "factors"
    /\ UNCHANGED <<raw_2024, raw_years, df_2024, df_2024_years, df_years, df_top10,
                   df_2024_top10, df_2024_factors, error,
                   heatmap_df, df_contribution, world_years, controls>>

Factors ==
    /\ pc = "factors"
    /\ df_2024_factors' = SelectColumns(df_2024, FactorColumns)
    /\ pc' = "qcut_1"
    /\ UNCHANGED <<raw_2024, raw_years, df_2024, df_2024_years, df_years,
                   df_top10, df_2024_top10, charts, error,
                   reshaped, controls>>

QcutPc == <<"qcut_1", "qcut_2", "qcut_3", "qcut_4", "qcut_5", "qcut_6", "qcut_7">>

(* the k-th of the seven pd.qcut statements *)
Categorize(k) ==
    /\ pc = QcutPc[k]
    /\ LET cut == Qcut(Column(df_2024_factors, QcutColumns[k]), NumQuantiles, categories)
       IN  IF cut.raised
           THEN Raise("ValueError", {QcutColumns[k]})
           ELSE /\ df_2024_factors' =
                      SetColumn(df_2024_factors, CategoryColumns[k], cut.values)
                /\ pc' = IF k < Len(QcutPc) THEN QcutPc[k + 1] ELSE "scatter"
                /\ UNCHANGED <<raw_2024, raw_years, df_2024, df_2024_years, df_years,
                               df_top10, df_2024_top10, charts, error,
                   reshaped, controls>>

(* the scatter plot with its regression line, on df_2024_factors *)
Scatter ==
    /\ pc = "scatter"
    /\ charts' = charts \cup {"scatter", "reg"}
    /\ pc' = "geo_factors"
    /\ UNCHANGED <<raw_2024, raw_years, df_2024, df_2024_years, df_years,
                   df_top10, df_2024_top10, df_2024_factors, error,
                   reshaped, controls>>

(* Country_iso_numeric, looked up name by name *)
GeoFactors ==
    /\ pc = "geo_factors"
    /\ df_2024_factors' =
          SetColumn(df_2024_factors, "Country_iso_numeric",
                    [i \in DOMAIN df_2024_factors.rows |->
                        IsoNumeric(df_2024_factors.rows[i]["Country"])])
    /\ pc' = "dashboard"
    /\ UNCHANGED <<raw_2024, raw_years, df_2024, df_2024_years, df_years,
                   df_top10, df_2024_top10, charts, error,
                   spearman_cormatrix, heatmap_df, df_contribution,
                   world_years, select_year_chart, selections, world_factors,
                   country_dropdown, selection_country, select_year_map2>>

(* the six category selectors, each on "All", and the dashboard map *)
Dashboard ==
    /\ pc = "dashboard"
    /\ selections' = [k \in DOMAIN Metrics |-> <<>>]
    /\ world_factors' = WorldFactors(df_2024_factors, selections')
    /\ charts' = charts \cup {"world_base", "world_factors", "world_map"}
    /\ pc' = "country_charts"
    /\ UNCHANGED <<raw_2024, raw_years, df_2024, df_2024_years, df_years,
                   df_top10, df_2024_top10, df_2024_factors, error,
                   spearman_cormatrix, heatmap_df, df_contribution,
                   world_years, select_year_chart, country_dropdown,
                   selection_country, select_year_map2>>

(* the country selector and the three charts of the trend *)
CountryCharts ==
    /\ pc = "country_charts"
    /\ country_dropdown' = {df_years.rows[i]["Country"][1] : i \in DOMAIN df_years.rows}
    /\ selection_country' = <<"Afghanistan">>
    /\ charts' = charts \cup {"line", "point", "text"}
    /\ pc' = "df_contribution"
    /\ UNCHANGED <<raw_2024, raw_years, df_2024, df_2024_years, df_years,
                   df_top10, df_2024_top10, df_2024_factors, error,
                   spearman_cormatrix, heatmap_df, df_contribution,
                   world_years, select_year_chart, selections, world_factors,
                   select_year_map2>>

ContributionTable ==
    /\ pc = "df_contribution"
    /\ df_contribution' =
          Melt(Rename(SelectColumns(df_2024, {"Country"} \cup Range(ContributionColumns)),
                      RenameContribution),
               "Country", Metrics, "Factor", "Share of Happiness Score")
    /\ pc' = "country_history"
    /\ UNCHANGED <<raw_2024, raw_years, df_2024, df_2024_years, df_years,
                   df_top10, df_2024_top10, df_2024_factors, charts, error,
                   spearman_cormatrix, heatmap_df, world_years,
                   select_year_chart, selections, world_factors,
                   country_dropdown, selection_country, select_year_map2>>

CountryHistory ==
    /\ pc = "country_history"
    /\ charts' = charts \cup {"countries_contributions", "countries_contributions_text",
                              "countries_factors", "country_history"}
    /\ pc' = "mean_country"
    /\ UNCHANGED <<raw_2024, raw_years, df_2024, df_2024_years, df_years,
                   df_top10, df_2024_top10, df_2024_factors, error,
                   spearman_cormatrix, heatmap_df, df_contribution,
                   world_years, select_year_chart, selections, world_factors,
                   country_dropdown, selection_country, select_year_map2>>

(* Mean_Country and Difference_Country *)
RelativeCountry ==
    /\ pc = "mean_country"
    /\ df_years' =
          LET withMean == SetColumn(df_years, "Mean_Country",
                                    GroupMean(df_years, "Country", "Happiness Score"))
          IN  SetColumn(withMean, "Difference_Country",
                        [i \in DOMAIN withMean.rows |->
                            FSub(withMean.rows[i]["Happiness Score"],
                                 withMean.rows[i]["Mean_Country"])])
    /\ pc' = "mean_year"
    /\ UNCHANGED <<raw_2024, raw_years, df_2024, df_2024_years, df_top10,
                   df_2024_top10, df_2024_factors, charts, error,
                   reshaped, controls>>

(* Mean_Year and Difference_Year *)
RelativeYear ==
    /\ pc = "mean_year"
    /\ df_years' =
          LET withMean == SetColumn(df_years, "Mean_Year",
                                    GroupMean(df_years, "Year", "Happiness Score"))
          IN  SetColumn(withMean, "Difference_Year",
                        [i \in DOMAIN withMean.rows |->
                            FSub(withMean.rows[i]["Happiness Score"],
                                 withMean.rows[i]["Mean_Year"])])
    /\ pc' = "iso"
    /\ UNCHANGED <<raw_2024, raw_years, df_2024, df_2024_years, df_top10,
                   df_2024_top10, df_2024_factors, charts, error,
                   reshaped, controls>>

(* the ISO3 and the ISO numeric code of every row of df_years *)
Iso ==
    /\ pc = "iso"
    /\ df_years' =
          LET withIso == SetColumn(df_years, "iso",
                            [i \in DOMAIN df_years.rows |-> Iso3(df_years.rows[i]["Country"])])
          IN  SetColumn(withIso, "iso_numeric",
                        [i \in DOMAIN withIso.rows |->
                            IsoNumeric(withIso.rows[i]["Country"])])
    /\ pc' = "world_years"
    /\ UNCHANGED <<raw_2024, raw_years, df_2024, df_2024_years, df_top10,
                   df_2024_top10, df_2024_factors, charts, error,
                   spearman_cormatrix, heatmap_df, df_contribution,
                   world_years, select_year_chart, selections, world_factors,
                   country_dropdown, selection_country, select_year_map2>>

WorldYears ==
    /\ pc = "world_years"
    /\ world_years' =
          LET copy == SelectColumns(df_years, WorldYearsColumns)
              str  == SetColumn(copy, "Year",
                                [i \in DOMAIN copy.rows |-> YearString(copy.rows[i]["Year"])])
          IN  Pivot(DropDuplicates(str, {"iso_numeric", "Year"}),
                    {"iso_numeric", "Country"}, "Year", "Difference_Country")
    /\ pc' = "globe"
    /\ UNCHANGED <<raw_2024, raw_years, df_2024, df_2024_years, df_years,
                   df_top10, df_2024_top10, df_2024_factors, charts, error,
                   spearman_cormatrix, heatmap_df, df_contribution,
                   select_year_chart, selections, world_factors,
                   country_dropdown, selection_country, select_year_map2>>

(* the year slider of the globe and map2; world_map is bound again, to the *)
(* globe                                                                   *)
Globe ==
    /\ pc = "globe"
    /\ select_year_map2' = <<Map2Year>>
    /\ charts' = charts \cup {"globe", "grid", "map2", "world_map"}
    /\ pc' = "done"
    /\ UNCHANGED <<raw_2024, raw_years, df_2024, df_2024_years, df_years,
                   df_top10, df_2024_top10, df_2024_factors, error,
                   spearman_cormatrix, heatmap_df, df_contribution,
                   world_years, select_year_chart, selections, world_factors,
                   country_dropdown, selection_country>>

-----------------------------------------------------------------------------
(* What the reader does with the controls of a chart that is on the page,  *)
(* once the script has run to its end or stopped in an exception; the      *)
(* charting runtime evaluates the chart's transforms again                 *)

Ended == pc \in {"done", "aborted"}

(* a category selector is set to "All" (<<>>) or to one of the menu *)
SelectCategory ==
    /\ Ended
    /\ "world_map" \in charts
    /\ \E k \in DOMAIN selections :
       \E v \in {<<>>} \cup {<<menu[n]>> : n \in DOMAIN menu} :
          /\ selections' = [selections EXCEPT ![k] = v]
          /\ world_factors' = WorldFactors(df_2024_factors, selections')
    /\ UNCHANGED <<pc, raw_2024, raw_years, df_2024, df_2024_years, df_years,
                   df_top10, df_2024_top10, df_2024_factors, charts, error,
                   spearman_cormatrix, heatmap_df, df_contribution,
                   world_years, select_year_chart, country_dropdown,
                   selection_country, select_year_map2>>

(* a click on the dashboard map: clear="click" empties the six selections *)
ClickMap ==
    /\ Ended
    /\ "world_map" \in charts
    /\ selections' = [k \in DOMAIN selections |-> <<>>]
    /\ world_factors' = WorldFactors(df_2024_factors, selections')
    /\ UNCHANGED <<pc, raw_2024, raw_years, df_2024, df_2024_years, df_years,
                   df_top10, df_2024_top10, df_2024_factors, charts, error,
                   spearman_cormatrix, heatmap_df, df_contribution,
                   world_years, select_year_chart, country_dropdown,
                   selection_country, select_year_map2>>

(* the year slider of the leaderboard is moved *)
SlideChart ==
    /\ Ended
    /\ "chart" \in charts
    /\ \E y \in SliderMin .. SliderMax : select_year_chart' = <<y>>
    /\ UNCHANGED <<pc, raw_2024, raw_years, df_2024, df_2024_years, df_years,
                   df_top10, df_2024_top10, df_2024_factors, charts, error,
                   spearman_cormatrix, heatmap_df, df_contribution,
                   world_years, selections, world_factors, country_dropdown,
                   selection_country, select_year_map2>>

(* the year slider of the globe is moved *)
SlideMap2 ==
    /\ Ended
    /\ "map2" \in charts
    /\ \E y \in SliderMin .. SliderMax : select_year_map2' = <<y>>
    /\ UNCHANGED <<pc, raw_2024, raw_years, df_2024, df_2024_years, df_years,
                   df_top10, df_2024_top10, df_2024_factors, charts, error,
                   spearman_cormatrix, heatmap_df, df_contribution,
                   world_years, select_year_chart, selections, world_factors,
                   country_dropdown, selection_country>>

(* a country is picked in the dropdown of the trend charts *)
SelectCountry ==
    /\ Ended
    /\ "line" \in charts
    /\ \E c \in country_dropdown : selection_country' = <<c>>
    /\ UNCHANGED <<pc, raw_2024, raw_years, df_2024, df_2024_years, df_years,
                   df_top10, df_2024_top10, df_2024_factors, charts, error,
                   spearman_cormatrix, heatmap_df, df_contribution,
                   world_years, select_year_chart, selections, world_factors,
                   country_dropdown, select_year_map2>>

Next ==
    \/ SortYears
    \/ Select2024
    \/ Rename2024
    \/ Rank2024
    \/ Tag2024
    \/ RenameYears
    \/ ConcatYears
    \/ DropnaYears
    \/ Exclude2014
    \/ Exclude2013
    \/ Top10
    \/ Breakup
    \/ Contribution
    \/ Correlation
    \/ Heatmap
    \/ TopFactors
    \/ Factors
    \/ \E k \in DOMAIN QcutPc : Categorize(k)
    \/ Scatter
    \/ GeoFactors
    \/ Dashboard
    \/ CountryCharts
    \/ ContributionTable
    \/ CountryHistory
    \/ RelativeCountry
    \/ RelativeYear
    \/ Iso
    \/ WorldYears
    \/ Globe

Spec == Init /\ [][Next]_vars

(* the script run on every snapshot, with the default multi-year file *)
InitSnapshots ==
    \E in \in (SnapshotTables \cup SnapshotsOfEleven) \X {HistoryDefault} : Start(in)

SpecSnapshots == InitSnapshots /\ [][Next]_vars

(* a snapshot of four countries that differ in every column *)
SnapshotDashboard == Snapshot(<<1, 2, 3, 4>>)

(* the script run on one pair of files, and a reader who works the         *)
(* category selectors of the dashboard map                                 *)
InitDashboard == Start(<<SnapshotDashboard, HistoryDefault>>)

NextDashboard == Next \/ SelectCategory \/ ClickMap

SpecDashboard == InitDashboard /\ [][NextDashboard]_vars

(* the script run on the default snapshot and a multi-year file, and a     *)
(* reader who moves the two year sliders                                   *)
InitSliders ==
    \E in \in {SnapshotDefault} \X ({HistoryDefault} \cup GeoHistoryTables) : Start(in)

NextSliders == Next \/ SlideChart \/ SlideMap2

SpecSliders == InitSliders /\ [][NextSliders]_vars

(* a WHR2024.csv like the default one that has no row of Afghanistan *)
SnapshotWithoutAfghanistan ==
    Table(RawColumns2024,
          [i \in 1 .. 3 |-> SnapshotRow(i + 1, SnapshotKinds[i])])

(* the script run on a snapshot and a multi-year file, and a reader who    *)
(* picks countries in the dropdown                                         *)
InitCountry ==
    \E in \in {SnapshotDefault, SnapshotWithoutAfghanistan}
                \X ({HistoryDefault} \cup GeoHistoryTables) : Start(in)

NextCountry == Next \/ SelectCountry

SpecCountry == InitCountry /\ [][NextCountry]_vars

-----------------------------------------------------------------------------
(* Positions of the script *)

(* df_years has been normalized: the script is past line 92.  Only the    *)
(* column lookups before that line raise KeyError                          *)
Normalized ==
    /\ pc \notin {"sort_years", "select_2024", "rename_2024", "rank_2024", "tag_2024",
                  "rename_years", "concat", "dropna", "exclude_2014", "exclude_2013"}
    /\ ~(pc = "aborted" /\ error.type = "KeyError")

(* df_2024 has its Rank column: the script is past line 85 *)
Ranked == "Rank" \in df_2024.cols

(* the k-th pd.qcut statement has run: it added its column or it raised *)
Attempted(k) ==
    \/ CategoryColumns[k] \in df_2024_factors.cols
    \/ pc = "aborted" /\ error = [type |-> "ValueError", what |-> {QcutColumns[k]}]

ExcludedYears == {Num(ExcludedYearA), Num(ExcludedYearB)}

RequiredFields == {"Country", "Year", "Happiness Score", "Rank"}

RequiredColumnsYears == {"Country", "Year", "Index", "Rank"}

(* the number of rows of df that agree with row r on the columns cs *)
Occurrences(df, r, cs) ==
    Cardinality({i \in DOMAIN df.rows : \A c \in cs : df.rows[i][c] = r[c]})

PositiveInteger(x) == Len(x) = 2 /\ x[2] = 1 /\ x[1] >= 1

-----------------------------------------------------------------------------
(* C1: in df_2024 and in the normalized df_years every Rank is a positive  *)
(* integer, and two rows of the same year with equal Happiness Score have  *)
(* equal Rank.  (A row of df_2024 without a score is not ranked at all and *)
(* is left out of the statement.)                                          *)
C1_RankPositiveIntegerTiesShare ==
    /\ Ranked =>
          \A i \in DOMAIN df_2024.rows :
             /\ ~isna(df_2024.rows[i]["Happiness Score"])
                   => PositiveInteger(df_2024.rows[i]["Rank"])
             /\ \A j \in DOMAIN df_2024.rows :
                   df_2024.rows[i]["Happiness Score"] = df_2024.rows[j]["Happiness Score"]
                   => df_2024.rows[i]["Rank"] = df_2024.rows[j]["Rank"]
    /\ Normalized =>
          \A i \in DOMAIN df_years.rows :
             /\ PositiveInteger(df_years.rows[i]["Rank"])
             /\ \A j \in DOMAIN df_years.rows :
                   (/\ df_years.rows[i]["Year"] = df_years.rows[j]["Year"]
                    /\ df_years.rows[i]["Happiness Score"]
                          = df_years.rows[j]["Happiness Score"])
                   => df_years.rows[i]["Rank"] = df_years.rows[j]["Rank"]

(* C2: once df_years is normalized no row of it has Year 2013 or 2014, at  *)
(* any later step; and from the concatenated table on, no step removes a   *)
(* row of another year that has no missing field                           *)
C2_ExcludedYearsNeverAppear ==
    [][ /\ Normalized' =>
              \A i \in DOMAIN df_years'.rows :
                 df_years'.rows[i]["Year"] \notin ExcludedYears
        /\ (pc \in {"dropna", "exclude_2014", "exclude_2013"} \/ Normalized) =>
              \A i \in DOMAIN df_years.rows :
                 LET r == df_years.rows[i]
                 IN  (RowComplete(df_years, r) /\ r["Year"] \notin ExcludedYears)
                     => Occurrences(df_years', r, df_years.cols)
                          = Occurrences(df_years, r, df_years.cols)
      ]_vars

(* a run whose multi-year file held a complete row of an excluded year and *)
(* whose normalized table kept a row of 2015 and a row of 2024             *)
C2_Witness ==
    /\ Normalized
    /\ \E i \in DOMAIN raw_years.rows :
          /\ RowComplete(raw_years, raw_years.rows[i])
          /\ "Year" \in raw_years.cols
          /\ raw_years.rows[i]["Year"] \in ExcludedYears
    /\ \E i, j \in DOMAIN df_years.rows :
          /\ df_years.rows[i]["Year"] = Num(2015)
          /\ df_years.rows[j]["Year"] = Num(SnapshotYear)

(* C3: every snapshot row with a Country and a Happiness Score is in the   *)
(* normalized df_years exactly once, with Year 2024 and the snapshot's      *)
(* score and Rank, whatever columns the multi-year file has                *)
C3_SnapshotRowsAppearOnce ==
    Normalized =>
       \A i \in DOMAIN df_2024.rows :
          LET s == df_2024.rows[i]
          IN  (~isna(s["Country"]) /\ ~isna(s["Happiness Score"]))
              => Cardinality({j \in DOMAIN df_years.rows :
                     /\ df_years.rows[j]["Country"] = s["Country"]
                     /\ df_years.rows[j]["Year"] = Num(SnapshotYear)
                     /\ df_years.rows[j]["Happiness Score"] = s["Happiness Score"]
                     /\ df_years.rows[j]["Rank"] = s["Rank"]}) = 1

(* C4: normalization removes a row of the concatenated table if and only   *)
(* if it lacks Country, Year, Happiness Score or Rank or its Year is 2013  *)
(* or 2014; it fills nothing in, and no normalized row lacks one of them   *)
C4_RemovedIffIncompleteOrExcluded ==
    [][ /\ pc \in {"dropna", "exclude_2014", "exclude_2013"} =>
              /\ \A i \in DOMAIN df_years.rows :
                    LET r == df_years.rows[i]
                    IN  Occurrences(df_years', r, df_years.cols)
                           < Occurrences(df_years, r, df_years.cols)
                        => \/ \E c \in RequiredFields : isna(r[c])
                           \/ r["Year"] \in ExcludedYears
              /\ \A i \in DOMAIN df_years'.rows :
                    Occurrences(df_years, df_years'.rows[i], df_years.cols) >= 1
        /\ Normalized' =>
              \A i \in DOMAIN df_years'.rows :
                 /\ \A c \in RequiredFields : ~isna(df_years'.rows[i][c])
                 /\ df_years'.rows[i]["Year"] \notin ExcludedYears
      ]_vars

(* C5: when one of the nine selected columns is absent from the snapshot   *)
(* or Country, Year, Rank or Index from the multi-year file, no chart is   *)
(* ever built, the script never gets past normalization, and the error it  *)
(* ends in names an absent column                                          *)
C5_MissingColumnFailsFast ==
    LET absent == (SelectedColumns \ raw_2024.cols)
                  \cup (RequiredColumnsYears \ raw_years.cols)
    IN  absent # {} =>
           /\ charts = {}
           /\ ~Normalized
           /\ pc = "aborted" =>
                 (error.type = "KeyError" /\ error.what # {} /\ error.what \subseteq absent)

(* C6: each contribution is the metric divided by the Happiness Score, and *)
(* is NaN in a row whose Happiness Score is zero or missing                *)
C6_ContributionIsRatioOrNaN ==
    Range(ContributionColumns) \subseteq df_2024.cols =>
       \A k \in DOMAIN Metrics : \A i \in DOMAIN df_2024.rows :
          LET s == df_2024.rows[i]["Happiness Score"]
              m == df_2024.rows[i][Metrics[k]]
              c == df_2024.rows[i][ContributionColumns[k]]
          IN  IF isna(s) \/ s = Num(0) \/ isna(m) THEN isna(c)
              ELSE IsFinite(c) /\ c[1] * s[1] * m[2] = m[1] * s[2] * c[2]

(* the values present in the k-th categorized column *)
PresentValues(k) ==
    LET values == Column(df_2024_factors, QcutColumns[k])
    IN  {values[i] : i \in {j \in DOMAIN values : ~isna(values[j])}}

PresentRows(k) ==
    {i \in DOMAIN df_2024_factors.rows :
        ~isna(df_2024_factors.rows[i][QcutColumns[k]])}

Population(k, label) ==
    Cardinality({i \in DOMAIN df_2024_factors.rows :
                    df_2024_factors.rows[i][CategoryColumns[k]] = Str(label)})

(* the k-th category column exists, none of Low, Average, High is empty    *)
(* and no two of them differ in population by more than 1                  *)
ThreeEvenBins(k) ==
    /\ CategoryColumns[k] \in df_2024_factors.cols
    /\ \A a, b \in Range(categories) :
          /\ Population(k, a) >= 1
          /\ Population(k, a) - Population(k, b) <= 1

(* C7: a column with at least 3 distinct values is split into three        *)
(* non-empty bins whose populations differ by at most 1, whatever values   *)
(* repeat                                                                  *)
C7_ThreeEvenBinsWhenThreeDistinct ==
    \A k \in DOMAIN QcutColumns :
       (Attempted(k) /\ Cardinality(PresentValues(k)) >= NumQuantiles)
       => ThreeEvenBins(k)

(* C8: a column with fewer than 3 distinct values does not end the script  *)
(* in a library exception: its category stays undefined and the script     *)
(* goes on                                                                 *)
C8_DegenerateColumnIsDeclared ==
    \A k \in DOMAIN QcutColumns :
       (Attempted(k) /\ Cardinality(PresentValues(k)) < NumQuantiles)
       => /\ pc # "aborted"
          /\ CategoryColumns[k] \in df_2024_factors.cols
             => \A i \in DOMAIN df_2024_factors.rows :
                   isna(df_2024_factors.rows[i][CategoryColumns[k]])

CategoryIndex(c) == CHOOSE n \in DOMAIN categories : Str(categories[n]) = c

(* C9: the categories are monotone in the value, equal values get the same *)
(* category, and a value equal to the 1/3 (2/3) cut point is Low (Average) *)
C9_CategoriesMonotoneLowerAtCut ==
    \A k \in DOMAIN QcutColumns :
       CategoryColumns[k] \in df_2024_factors.cols =>
          LET values == Column(df_2024_factors, QcutColumns[k])
              cats   == Column(df_2024_factors, CategoryColumns[k])
              cut    == [t \in 1 .. NumQuantiles - 1 |->
                            Quantile(values, t, NumQuantiles)]
          IN  \A i \in PresentRows(k) :
                 /\ cats[i] \in {Str(categories[n]) : n \in DOMAIN categories}
                 /\ \A j \in PresentRows(k) :
                       /\ FLess(values[i], values[j])
                            => CategoryIndex(cats[i]) <= CategoryIndex(cats[j])
                       /\ values[i] = values[j] => cats[i] = cats[j]
                 /\ \A t \in DOMAIN cut :
                       values[i] = cut[t] => CategoryIndex(cats[i]) = t

(* a categorized column of at least 3 rows holds a value that is exactly   *)
(* the 1/3 cut point                                                       *)
C9_Witness ==
    \E k \in DOMAIN QcutColumns :
       /\ CategoryColumns[k] \in df_2024_factors.cols
       /\ Cardinality(PresentRows(k)) >= 3
       /\ \E i \in PresentRows(k) :
             df_2024_factors.rows[i][QcutColumns[k]]
                = Quantile(Column(df_2024_factors, QcutColumns[k]), 1, NumQuantiles)

(* row i's value minus the mean of the rows of df_years that share its key *)
(* is d: stated without a division, as |G| * d = the sum over the rows j   *)
(* of G of (value of i - value of j)                                       *)
IsDeviationFromGroupMean(i, key, d) ==
    LET G == {j \in DOMAIN df_years.rows : df_years.rows[j][key] = df_years.rows[i][key]}
        diffs == [j \in DOMAIN df_years.rows |->
                     FSub(df_years.rows[i]["Happiness Score"],
                          df_years.rows[j]["Happiness Score"])]
    IN  IsFinite(d) /\ FMul(Num(Cardinality(G)), d) = SumCells(diffs, G)

(* C10: Difference_Country is the score minus the mean over exactly the    *)
(* rows of df_years of the same Country, Difference_Year the score minus   *)
(* the mean over exactly the rows of the same Year                         *)
C10_DifferencesFromGroupMeans ==
    /\ "Difference_Country" \in df_years.cols =>
          \A i \in DOMAIN df_years.rows :
             IsDeviationFromGroupMean(i, "Country", df_years.rows[i]["Difference_Country"])
    /\ "Difference_Year" \in df_years.cols =>
          \A i \in DOMAIN df_years.rows :
             IsDeviationFromGroupMean(i, "Year", df_years.rows[i]["Difference_Year"])

(* both differences are computed, and a country observed in three years    *)
(* stands beside a country observed in fewer, a row of which the           *)
(* normalization dropped                                                   *)
C10_Witness ==
    /\ "Difference_Year" \in df_years.cols
    /\ \E i, j \in DOMAIN df_years.rows :
          /\ Occurrences(df_years, df_years.rows[i], {"Country"}) = 3
          /\ Occurrences(df_years, df_years.rows[j], {"Country"}) < 3
          /\ df_years.rows[i]["Difference_Country"] # Num(0)
          /\ df_years.rows[j]["Difference_Year"] # Num(0)
          /\ Occurrences(raw_years, [Country |-> df_years.rows[j]["Country"]], {"Country"})
               + Occurrences(df_2024, [Country |-> df_years.rows[j]["Country"]], {"Country"})
               > Occurrences(df_years, df_years.rows[j], {"Country"})

-----------------------------------------------------------------------------
(* The correlation matrix *)

(* spearman_cormatrix holds the whole matrix: the script is past line 250  *)
(* and before line 292                                                     *)
MatrixComputed ==
    spearman_cormatrix.cols = Range(CorrelationVariables) \cup {"index"}

(* the entry of the matrix in the row labelled a and the column b *)
Entry(a, b) ==
    LET i == CHOOSE k \in DOMAIN spearman_cormatrix.rows :
                spearman_cormatrix.rows[k]["index"] = Str(a)
    IN  spearman_cormatrix.rows[i][b]

(* the rows of df_2024 that have a value in both columns *)
PairwiseComplete(a, b) ==
    FilterRows(df_2024, {i \in DOMAIN df_2024.rows :
                  ~isna(df_2024.rows[i][a]) /\ ~isna(df_2024.rows[i][b])})

(* twice the ranks of a column: whole numbers, the average rank of a tie   *)
(* being a multiple of 1/2                                                 *)
Doubled(ranks) == [i \in DOMAIN ranks |-> ranks[i][1] * (2 \div ranks[i][2])]

(* n * sum(x * y) - sum(x) * sum(y) of two columns of whole numbers *)
RankCovariation(x, y) ==
    LET I == DOMAIN x
    IN  Len(x) * SumInts([i \in I |-> x[i] * y[i]], I) - SumInts(x, I) * SumInts(y, I)

(* the column a takes at least two values over the rows where b has one *)
Varies(a, b) ==
    Cardinality(Range(Column(PairwiseComplete(a, b), a))) >= 2

(* e is the Pearson correlation r of the average ranks of the columns a    *)
(* and b over their pairwise complete rows (e holds r * |r|): e has the    *)
(* sign of the covariation and |e| = sxy * sxy / (sxx * syy)               *)
IsRankCorrelation(a, b, e) ==
    LET t   == PairwiseComplete(a, b)
        ra  == Doubled(RankDescending(Column(t, a)))
        rb  == Doubled(RankDescending(Column(t, b)))
        sxy == RankCovariation(ra, rb)
    IN  /\ IsFinite(e)
        /\ Sign(e[1]) = Sign(sxy)
        /\ <<Abs(e[1]), e[2]>>
              = Norm(sxy * sxy, RankCovariation(ra, ra) * RankCovariation(rb, rb))

InUnitInterval(e) == FLeq(Num(-1), e) /\ FLeq(e, Num(1))

(* C11: the correlation matrix is symmetric, every diagonal entry is 1,    *)
(* every entry lies in [-1, 1] and is the Pearson correlation of the       *)
(* average ranks of its two columns                                        *)
C11_MatrixSymmetricUnitDiagonal ==
    MatrixComputed =>
       \A a, b \in Range(CorrelationVariables) :
          /\ Entry(a, b) = Entry(b, a)
          /\ Entry(a, a) = Num(1)
          /\ InUnitInterval(Entry(a, b))
          /\ IsRankCorrelation(a, b, Entry(a, b))

(* C11 as amended: the matrix is symmetric; an entry is NaN exactly when   *)
(* one of its two columns takes fewer than two values over the rows where  *)
(* both have one; every other entry lies in [-1, 1] and is the Pearson     *)
(* correlation of the average ranks of the two columns over those rows;    *)
(* the diagonal entry of a column with two distinct values is 1            *)
C11_MatrixSymmetricDiagonalOneOrNaN ==
    MatrixComputed =>
       \A a, b \in Range(CorrelationVariables) :
          /\ Entry(a, b) = Entry(b, a)
          /\ Entry(a, a) = IF Varies(a, a) THEN Num(1) ELSE NaN
          /\ IF Varies(a, b) /\ Varies(b, a)
             THEN InUnitInterval(Entry(a, b)) /\ IsRankCorrelation(a, b, Entry(a, b))
             ELSE isna(Entry(a, b))

(* a matrix over a table with a missing score and a tied metric, with an   *)
(* entry strictly between 0 and 1, a negative entry and a unit diagonal    *)
C11_Witness ==
    /\ MatrixComputed
    /\ \E i \in DOMAIN df_2024.rows : isna(df_2024.rows[i]["Happiness Score"])
    /\ \E i, j \in DOMAIN df_2024.rows :
          /\ i # j
          /\ df_2024.rows[i]["GDP per capita"] = df_2024.rows[j]["GDP per capita"]
    /\ \A a \in Range(CorrelationVariables) : Entry(a, a) = Num(1)
    /\ \E a, b \in Range(CorrelationVariables) :
          FLess(Num(0), Entry(a, b)) /\ FLess(Entry(a, b), Num(1))
    /\ \E a, b \in Range(CorrelationVariables) : FLess(Entry(a, b), Num(0))


-----------------------------------------------------------------------------
(* C12 *)

(* a name the country converter does not know *)
Unmatched(name) == \A k \in DOMAIN CountryCodes : Str(CountryCodes[k][1]) # name

WorldYearsBuilt == pc \in {"globe", "done"}

(* the row of df_years is in world_years as a row of its own country that  *)
(* has, in the column of its year, its Difference_Country                  *)
KeptInWorldYears(row) ==
    \E j \in DOMAIN world_years.rows :
        /\ world_years.rows[j]["Country"] = row["Country"]
        /\ YearString(row["Year"])[1] \in world_years.cols
        /\ world_years.rows[j][YearString(row["Year"])[1]] = row["Difference_Country"]

(* C12: a country whose name has no ISO mapping gets the code "not found"  *)
(* and the script does not stop for it; no shape of a map chart is joined  *)
(* to its row; and its row stays in df_2024_factors and df_years and is in *)
(* the pivoted world_years as a row of its own with its own value, also    *)
(* when several countries are unmatched.                                   *)
C12_UnmatchedKeptInTables ==
    WorldYearsBuilt =>
        /\ \A i \in DOMAIN df_2024_factors.rows :
              Unmatched(df_2024_factors.rows[i]["Country"]) =>
                  /\ df_2024_factors.rows[i]["Country_iso_numeric"] = NotFound
                  /\ \A id \in WorldIds :
                        LookupRow(df_2024_factors, "Country_iso_numeric", id) # i
        /\ \A i \in DOMAIN df_years.rows :
              Unmatched(df_years.rows[i]["Country"]) =>
                  /\ df_years.rows[i]["iso_numeric"] = NotFound
                  /\ \A id \in WorldIds : LookupRow(world_years, "iso_numeric", id) = 0
                        \/ world_years.rows[LookupRow(world_years, "iso_numeric", id)]["Country"]
                              # df_years.rows[i]["Country"]
                  /\ KeptInWorldYears(df_years.rows[i])

-----------------------------------------------------------------------------
(* C13 *)

DashboardDrawn == "world_map" \in charts /\ selections # <<>>

(* the row of df_2024_factors is joined onto a shape the dashboard map can *)
(* draw: a row of an unmatched name (C12) is joined onto none              *)
Drawable(i) ==
    \E id \in WorldIds \ {Antarctica, Greenland} :
        LookupRow(df_2024_factors, "Country_iso_numeric", id) = i

(* the row is shown: the shape it is joined onto is drawn *)
Shown(i) ==
    \E id \in world_factors :
        LookupRow(df_2024_factors, "Country_iso_numeric", id) = i

(* the row has, for every selector that is not on "All", the category the  *)
(* selector is set to                                                      *)
MatchesSelectors(i) ==
    \A k \in DOMAIN selections :
        \/ selections[k] = <<>>
        \/ df_2024_factors.rows[i][CategoryColumns[k]] = Str(selections[k][1])

SelectorsSet == {k \in DOMAIN selections : selections[k] # <<>>}

(* C13: in the dashboard map each of the six selectors is on "All" or on   *)
(* one of Low, Average, High, all six are on "All" when the map is         *)
(* declared, and a country row is shown if and only if, for every selector *)
(* not on "All", the row's category of that metric is the selected value.  *)
C13_ShownIffEverySelectorMatches ==
    DashboardDrawn =>
        /\ DOMAIN selections = DOMAIN Metrics
        /\ \A k \in DOMAIN selections :
              selections[k] = <<>> \/ \E n \in DOMAIN menu : selections[k] = <<menu[n]>>
        /\ pc = "country_charts" => SelectorsSet = {}
        /\ \A i \in DOMAIN df_2024_factors.rows :
              Drawable(i) => (Shown(i) <=> MatchesSelectors(i))

(* two selectors are set, and of the rows the map can draw one is shown    *)
(* and one is not                                                          *)
C13_Witness ==
    /\ DashboardDrawn
    /\ Cardinality(SelectorsSet) >= 2
    /\ \E i, j \in DOMAIN df_2024_factors.rows :
          /\ Drawable(i) /\ Shown(i)
          /\ Drawable(j) /\ ~Shown(j)

-----------------------------------------------------------------------------
(* C14 *)

(* the filter order with the a-th and the b-th filter exchanged *)
Exchanged(a, b) ==
    [n \in DOMAIN FilterOrder |->
        IF n = a THEN FilterOrder[b] ELSE IF n = b THEN FilterOrder[a] ELSE FilterOrder[n]]

(* what one selector alone, with the others on "All", lets through *)
AloneShows(k) ==
    WorldFactors(df_2024_factors,
                 [n \in DOMAIN selections |-> IF n = k THEN selections[k] ELSE <<>>])

(* C14: the set the dashboard map shows is a function of the current      *)
(* values of the selectors alone, whatever the changes that led to them,   *)
(* for any two selectors it is the set obtained with their two filters     *)
(* applied in the other order, and it is what the six filters, each       *)
(* applied alone, all let through.                                         *)
C14_FilteredSetIndependentOfOrder ==
    DashboardDrawn =>
        /\ world_factors = WorldFactors(df_2024_factors, selections)
        /\ \A a, b \in DOMAIN FilterOrder :
              a < b =>
                 world_factors =
                    FilterChain(df_2024_factors, selections,
                                WorldIds \ {Antarctica, Greenland}, Exchanged(a, b))
        /\ world_factors =
              {id \in WorldIds : \A k \in DOMAIN selections : id \in AloneShows(k)}

(* two selectors are set, each of them alone shows a set the other does    *)
(* not, and the map shows some shape                                       *)
C14_Witness ==
    /\ DashboardDrawn
    /\ \E a, b \in SelectorsSet :
          /\ a # b
          /\ AloneShows(a) \ AloneShows(b) # {}
          /\ AloneShows(b) \ AloneShows(a) # {}
    /\ world_factors # {}

-----------------------------------------------------------------------------
(* C15 *)

(* the years the table has rows of *)
YearsPresent(df) ==
    {df.rows[i]["Year"][1] \div df.rows[i]["Year"][2] : i \in DOMAIN df.rows}

LatestYear(df) == CHOOSE y \in YearsPresent(df) : \A z \in YearsPresent(df) : z <= y

(* the selector holds a year of the table, and when it is declared, the    *)
(* latest one                                                              *)
WithinData(before, after, df) ==
    /\ after # <<>> => after[1] \in YearsPresent(df)
    /\ before = <<>> /\ after # <<>> => after[1] = LatestYear(df)

(* C15: the year slider of the leaderboard and the year slider of the      *)
(* globe take only years that df_years has rows of, and each starts on the *)
(* latest year of df_years.                                                *)
C15_YearSelectorsWithinData ==
    [][/\ WithinData(select_year_chart, select_year_chart', df_years')
       /\ WithinData(select_year_map2, select_year_map2', df_years')]_vars

-----------------------------------------------------------------------------
(* C16 *)

(* the charts declared on df_years itself, alt.Chart(df_years): the line,  *)
(* the points and the labels of the trend of a country.  No chart is       *)
(* declared on df_2024 itself, only on tables copied from it               *)
ChartsOnYears == {"line", "point", "text"}

(* C16: once df_years has been handed to a chart, no later step of the run *)
(* adds, removes or changes a row or a column of it.                       *)
C16_TablesFrozenOnceCharted ==
    [][charts \cap ChartsOnYears # {} => df_years' = df_years]_vars

-----------------------------------------------------------------------------
(* C17 *)

(* the positions of the Normalizer: the two files are brought to the       *)
(* common schema of df_years (lines 57-92)                                 *)
NormalizerPositions ==
    {"sort_years", "select_2024", "rename_2024", "rank_2024", "tag_2024",
     "rename_years", "concat", "dropna", "exclude_2014", "exclude_2013"}

(* the positions of the Derivation Engine: the contribution ratios (lines  *)
(* 224-235), the correlation (240-250), the tertiles (372-406) and the     *)
(* relative happiness (778-786)                                            *)
DerivationPositions ==
    {"contribution", "correlation", "factors", "mean_country", "mean_year"}
       \cup {QcutPc[k] : k \in DOMAIN QcutPc}

(* a geo code has been looked up *)
GeoLookedUp ==
    \/ "Country_iso_numeric" \in df_2024_factors.cols
    \/ "iso_numeric" \in df_years.cols

(* the place in the order of the component the statement at p belongs to:  *)
(* the Normalizer, the Derivation Engine, then the Geo-Join Adapter and    *)
(* the Chart Binding Layer                                                 *)
Component(p) ==
    IF p \in NormalizerPositions THEN 2
    ELSE IF p \in DerivationPositions THEN 3
    ELSE 4

(* C17: the statements run in the order Normalizer, Derivation Engine,     *)
(* then Geo-Join Adapter and Chart Binding Layer: a derivation statement   *)
(* runs only while no chart is declared and no geo code looked up, and no  *)
(* statement of a component runs after one of a later component.           *)
C17_ComponentsRunInOrder ==
    [][pc' # pc =>
          /\ pc \in DerivationPositions => charts = {} /\ ~GeoLookedUp
          /\ pc' \notin {"done", "aborted"} => Component(pc) <= Component(pc')]_vars

-----------------------------------------------------------------------------
(* C18 *)

(* the rows of df of the year y *)
RowsOfYear(df, y) == {i \in DOMAIN df.rows : df.rows[i]["Year"] = Num(y)}

(* C18: df_2024_top10 has exactly ten rows whenever df_2024 has at least   *)
(* ten, and df_top10 has exactly ten rows of every year of which df_years  *)
(* has at least ten, also when countries around the tenth place have the   *)
(* same score.                                                             *)
C18_TopTenHasTenRows ==
    /\ "chart1" \in charts /\ Len(df_2024.rows) >= TopN
          => Len(df_2024_top10.rows) = TopN
    /\ "chart" \in charts =>
          \A y \in YearsPresent(df_years) :
             Cardinality(RowsOfYear(df_years, y)) >= TopN
                => Cardinality(RowsOfYear(df_top10, y)) = TopN

-----------------------------------------------------------------------------
(* C19 *)

(* the rows of df_years whose country has the code of the row j of         *)
(* world_years                                                             *)
RowsOfCode(j) ==
    {i \in DOMAIN df_years.rows :
        df_years.rows[i]["iso_numeric"] = world_years.rows[j]["iso_numeric"]}

(* C19: world_years has at most one row for an ISO numeric code, and for   *)
(* every country with a code, the row of the code has in the column of     *)
(* each year the Difference_Country of that country in that year, also     *)
(* when the country has two names that the converter maps to the one code. *)
C19_OneRowPerJoinKey ==
    WorldYearsBuilt =>
        /\ \A j, k \in DOMAIN world_years.rows :
              world_years.rows[j]["iso_numeric"] = world_years.rows[k]["iso_numeric"]
                 /\ world_years.rows[j]["iso_numeric"] # NotFound
                 => j = k
        /\ \A j \in DOMAIN world_years.rows :
              world_years.rows[j]["iso_numeric"] # NotFound =>
                 \A i \in RowsOfCode(j) :
                    /\ YearString(df_years.rows[i]["Year"])[1] \in world_years.cols
                    /\ world_years.rows[j][YearString(df_years.rows[i]["Year"])[1]]
                          \in {df_years.rows[n]["Difference_Country"] : n \in
                                 {m \in RowsOfCode(j) :
                                     df_years.rows[m]["Year"] = df_years.rows[i]["Year"]}}

-----------------------------------------------------------------------------
(* C20 *)

(* df_years has an observation of the country of the shape id in the year *)
Observed(id, year) ==
    \E i \in DOMAIN df_years.rows :
        /\ df_years.rows[i]["iso_numeric"] = Num(id)
        /\ df_years.rows[i]["Year"] = Num(year)

(* C20: on the globe, in the selected year, a country is drawn with the    *)
(* colour of the relative-happiness scale if and only if df_years has an   *)
(* observation of it in that year, and with the fallback colour if and     *)
(* only if it has none; an observed Difference_Country of -1 or less is    *)
(* drawn with the colour of the scale.                                     *)
C20_ScaleColourIffObserved ==
    "map2" \in charts /\ select_year_map2 # <<>> =>
        \A id \in WorldIds :
            /\ Map2Colour(world_years, id, select_year_map2[1]) = "scale"
                  <=> Observed(id, select_year_map2[1])
            /\ Map2Colour(world_years, id, select_year_map2[1]) = "fallback"
                  <=> ~Observed(id, select_year_map2[1])

-----------------------------------------------------------------------------
(* C21 *)

(* the country selector and the two charts linked to it are declared *)
CountryHistoryDrawn == "country_history" \in charts

(* the years the trend line has of the country: the rows of df_years that  *)
(* transform_filter(selection_country) lets through                        *)
TrendYears(c) ==
    {df_years.rows[i]["Year"] : i \in
        {j \in DOMAIN df_years.rows : df_years.rows[j]["Country"] = Str(c)}}

(* the bars of the 'Most Important Metrics' chart of the country: the rows *)
(* of df_contribution that transform_filter(selection_country) lets        *)
(* through                                                                 *)
ContributionBars(c) ==
    {i \in DOMAIN df_contribution.rows : df_contribution.rows[i]["Country"] = Str(c)}

(* C21: the country selector offers exactly the distinct country names of  *)
(* df_years, the selected country, at first 'Afghanistan', is one of the   *)
(* options, and for every option the trend line has at least one year and  *)
(* the 'Most Important Metrics' chart exactly six bars.                    *)
C21_EveryOptionHasData ==
    CountryHistoryDrawn =>
        /\ country_dropdown =
              {df_years.rows[i]["Country"][1] : i \in DOMAIN df_years.rows}
        /\ selection_country # <<>> /\ selection_country[1] \in country_dropdown
        /\ \A c \in country_dropdown :
              /\ TrendYears(c) # {}
              /\ Cardinality(ContributionBars(c)) = Len(Metrics)

====
